---- MODULE Spec2Model ----
(***************************************************************************)
(* A model of the path-value crate: the Value tree (src/value/mod.rs), the *)
(* Path it is addressed by (src/path/mod.rs), the get / set path engine    *)
(* and the merge engine.                                                   *)
(*                                                                         *)
(* A Value is a record tagged by t; a Map's payload m is a function from a *)
(* finite set of keys, an Array's payload a is a sequence.  Floats are     *)
(* kept as a count of halves (Float(3) is 1.5).                            *)
(***************************************************************************)
EXTENDS Integers, Sequences, FiniteSets, TLC

VARIABLES
    overflowChecks, \* TRUE: the build checks integer overflow (debug profile)
    root,           \* the Value the operations are called on
    last            \* the latest call: its arguments, its outcome, the root before it

vars == <<overflowChecks, root, last>>

----------------------------------------------------------------------------
(* Bounds of the model *)

MaxNodes == 3      \* nodes other than Nil of the tree an action may leave behind
MaxPathLen == 2    \* nodes of a parsed path
MaxIdx == 1        \* bracketed indices range over -MaxIdx .. MaxIdx
UsizeBits == 16    \* width the model gives usize (the targets have 32 or 64)
I64Bits == 24      \* width the model gives i64 and u64 (they have 64)

Keys == {"a", "b"}
Indices == (0 - MaxIdx) .. MaxIdx

----------------------------------------------------------------------------
(* enum Value *)

Nil == [t |-> "Nil"]
Integer(n) == [t |-> "Integer", v |-> n]
Float(h) == [t |-> "Float", v |-> h]
Boolean(b) == [t |-> "Boolean", v |-> b]
String(s) == [t |-> "String", v |-> s]
Map(m) == [t |-> "Map", m |-> m]
Array(a) == [t |-> "Array", a |-> a]

EmptyMap == [k \in {} |-> Nil]

IsScalar(value) == value.t \in {"Integer", "Float", "Boolean", "String"}

(* enum PathNode *)

Identifier(id) == [k |-> "Identifier", id |-> id]
Index(i) == [k |-> "Index", ix |-> i]

(* Option *)

None == [st |-> "None"]
Some(v) == [st |-> "Some", v |-> v]

----------------------------------------------------------------------------
(* Helpers over the tree *)

RECURSIVE SumSeq(_)
SumSeq(s) == IF s = <<>> THEN 0 ELSE Head(s) + SumSeq(Tail(s))

RECURSIVE SumOver(_, _)
SumOver(f, S) ==
    IF S = {} THEN 0
    ELSE LET x == CHOOSE y \in S : TRUE IN f[x] + SumOver(f, S \ {x})

\* The nodes of a tree.
RECURSIVE Size(_)
Size(value) ==
    CASE value.t = "Map" ->
            1 + SumOver([k \in DOMAIN value.m |-> Size(value.m[k])], DOMAIN value.m)
      [] value.t = "Array" ->
            1 + SumSeq([i \in 1 .. Len(value.a) |-> Size(value.a[i])])
      [] OTHER -> 1

\* The nodes of a tree that are not Nil.
RECURSIVE NonNil(_)
NonNil(value) ==
    CASE value.t = "Map" ->
            1 + SumOver([k \in DOMAIN value.m |-> NonNil(value.m[k])], DOMAIN value.m)
      [] value.t = "Array" ->
            1 + SumSeq([i \in 1 .. Len(value.a) |-> NonNil(value.a[i])])
      [] value.t = "Nil" -> 0
      [] OTHER -> 1

MapPut(m, key, value) ==
    [k \in (DOMAIN m) \cup {key} |-> IF k = key THEN value ELSE m[k]]

----------------------------------------------------------------------------
(* Value::map_index and Value::get_array_slot *)

Abs(i) == IF i >= 0 THEN i ELSE 0 - i

UsizeModulus == 2 ^ UsizeBits

\* A map_index that takes |index| itself for the position.
map_index_abs(index, len) == [st |-> "ok", ix |-> Abs(index)]

\* len - (index.abs() as usize) on usize: when it goes below zero a build with
\* overflow checks panics and a build without them wraps modulo 2^w.
map_index(index, len) ==
    IF index >= 0 THEN [st |-> "ok", ix |-> index]
    ELSE IF Abs(index) <= len THEN [st |-> "ok", ix |-> len - Abs(index)]
    ELSE IF overflowChecks THEN [st |-> "panic"]
    ELSE [st |-> "ok", ix |-> (len - Abs(index)) % UsizeModulus]

\* Vec::insert(index, element): panics when index > len, else shifts the tail.
VecInsert(array, index, element) ==
    IF index > Len(array) THEN [st |-> "panic"]
    ELSE [st |-> "ok",
          a  |-> SubSeq(array, 1, index) \o <<element>>
                 \o SubSeq(array, index + 1, Len(array))]

\* A get_array_slot that inserts a fresh slot at the index also when the
\* array has an element there.
get_array_slot_shifts(array, index) ==
    LET mi == map_index(index, Len(array)) IN
    IF mi.st = "panic" THEN [st |-> "panic"]
    ELSE LET ins == VecInsert(array, mi.ix, Nil) IN
         IF ins.st = "panic" THEN [st |-> "panic"]
         ELSE [st |-> "ok", a |-> ins.a, pos |-> mi.ix + 1]

\* The slot is returned as the array it lives in and its (1-based) position.
get_array_slot(array, index) ==
    LET mi == map_index(index, Len(array)) IN
    IF mi.st = "panic" THEN [st |-> "panic"]
    ELSE IF mi.ix < Len(array) THEN [st |-> "ok", a |-> array, pos |-> mi.ix + 1]
    ELSE LET ins == VecInsert(array, mi.ix, Nil) IN
         IF ins.st = "panic" THEN [st |-> "panic"]
         ELSE [st |-> "ok", a |-> ins.a, pos |-> mi.ix + 1]

----------------------------------------------------------------------------
(* Value::set, the walk after the path is parsed.  The raw pointers parent  *)
(* and target always point at the same node, so the walk is a descent that  *)
(* rebuilds the nodes above the slot.  The result is the node after the     *)
(* call, the value the slot held (old), and st: "ok", or "panic" with the   *)
(* node as the walk left it.                                                *)

\* A walk that keeps what a scalar or an Array held, under the key "a".
SetIdentParentKeeps(node) ==
    IF node.t = "Map" THEN node.m
    ELSE IF node.t = "Nil" THEN EmptyMap
    ELSE [k \in {"a"} |-> node]

\* HashMap::entry(ident).or_default() on the map found or just created.
SetIdentParent(node) == IF node.t = "Map" THEN node.m ELSE EmptyMap

\* The array found, or vec![Value::default()].
SetIndexParent(node) == IF node.t = "Array" THEN node.a ELSE <<Nil>>

\* A set that clones the slot after it has written it.
SetSlotCloneAfterWrite(target, input_value) ==
    [st |-> "ok", node |-> input_value, old |-> input_value]

\* After the last segment: result = (*target).clone(); *target = input_value.
SetSlot(target, input_value) == [st |-> "ok", node |-> input_value, old |-> target]

RECURSIVE SetWalk(_, _, _)
SetWalk(node, path, input_value) ==
    IF path = <<>> THEN SetSlot(node, input_value)
    ELSE LET sub_path == Head(path) IN
         IF sub_path.k = "Identifier" THEN
            LET parent_map == SetIdentParent(node)
                target == IF sub_path.id \in DOMAIN parent_map
                          THEN parent_map[sub_path.id] ELSE Nil
                r == SetWalk(target, Tail(path), input_value)
            IN  [st   |-> r.st,
                 node |-> Map(MapPut(parent_map, sub_path.id, r.node)),
                 old  |-> r.old]
         ELSE
            LET parent_array == SetIndexParent(node)
                slot == get_array_slot(parent_array, sub_path.ix)
            IN  IF slot.st = "panic"
                THEN [st |-> "panic", node |-> Array(parent_array), old |-> Nil]
                ELSE LET r == SetWalk(slot.a[slot.pos], Tail(path), input_value) IN
                     [st   |-> r.st,
                      node |-> Array([slot.a EXCEPT ![slot.pos] = r.node]),
                      old  |-> r.old]

----------------------------------------------------------------------------
(* Value::get: path.iter().scan(self, ..).last(), then the conversion *)

\* The closure given to scan: the child of value that child_path names.
GetStep(value, child_path) ==
    IF child_path.k = "Identifier" THEN
        IF value.t = "Map" /\ child_path.id \in DOMAIN value.m
        THEN Some(value.m[child_path.id]) ELSE None
    ELSE IF value.t = "Array" THEN
        LET index == map_index(child_path.ix, Len(value.a)) IN
        IF index.st = "panic" THEN [st |-> "panic"]
        ELSE IF index.ix >= Len(value.a) THEN None
        ELSE Some(value.a[index.ix + 1])
    ELSE None

\* scan stops at the closure's first None; last() is the last item scan
\* yielded before that (yielded), None when it yielded nothing.
RECURSIVE ScanLast(_, _, _)
ScanLast(value, path, yielded) ==
    IF path = <<>> THEN yielded
    ELSE LET result == GetStep(value, Head(path)) IN
         IF result.st = "Some" THEN ScanLast(result.v, Tail(path), result)
         ELSE IF result.st = "panic" THEN result
         ELSE yielded

----------------------------------------------------------------------------
(* error.rs: the errors the conversions and merge build *)

UBool(b) == [u |-> "Bool", v |-> b]
UInteger(n) == [u |-> "Integer", v |-> n]
UFloat(h) == [u |-> "Float", v |-> h]
UStr(s) == [u |-> "Str", v |-> s]
UUnit == [u |-> "Unit"]
UArray == [u |-> "Array"]
UMap == [u |-> "Map"]

invalid_type(unexpected, expected) ==
    [kind |-> "Type", unexpected |-> unexpected, expected |-> expected]
too_large(n) == [kind |-> "Range", v |-> n]

Ok(v) == [st |-> "ok", v |-> v]
Err(e) == [st |-> "err", e |-> e]

----------------------------------------------------------------------------
(* TryFrom<Value> for the primitive types.  A converted value carries its  *)
(* type: [ty |-> "bool", v |-> TRUE].                                       *)

Typed(ty, v) == [ty |-> ty, v |-> v]

IntTypes == {"i8", "u8", "i16", "i64", "u64"}
Types == {"bool", "String", "f64"} \cup IntTypes

\* i64::max_value() and u64::max_value(), at the width the model gives them.
I64Max == 2 ^ (I64Bits - 1) - 1
U64Max == 2 ^ I64Bits - 1

IntMin(ty) ==
    CASE ty = "i8" -> 0 - 128 [] ty = "u8" -> 0 [] ty = "i16" -> 0 - 32768
      [] ty = "i64" -> 0 - I64Max - 1 [] ty = "u64" -> 0
IntMax(ty) ==
    CASE ty = "i8" -> 127 [] ty = "u8" -> 255 [] ty = "i16" -> 32767
      [] ty = "i64" -> I64Max [] ty = "u64" -> U64Max

\* str::to_lowercase on the strings of the model.
to_lowercase(s) ==
    CASE s = "On" -> "on"
      [] s = "YES" -> "yes"
      [] s = "False" -> "false"
      [] OTHER -> s

\* str::parse::<$ty>() on the strings of the model: the decimal literals.
DecimalOf(s) ==
    CASE s = "7" -> Some(7)
      [] s = "0" -> Some(0)
      [] s = "1" -> Some(1)
      [] s = "300" -> Some(300)
      [] OTHER -> None

ParseInt(s, ty) ==
    LET d == DecimalOf(s) IN
    IF d.st = "Some" /\ d.v >= IntMin(ty) /\ d.v <= IntMax(ty) THEN d ELSE None

\* f64::round (half away from zero) on a count of halves, then `as $ty`,
\* which saturates.
RoundHalves(h) == IF h >= 0 THEN (h + 1) \div 2 ELSE 0 - ((1 - h) \div 2)
Saturate(n, ty) ==
    IF n < IntMin(ty) THEN IntMin(ty) ELSE IF n > IntMax(ty) THEN IntMax(ty) ELSE n

\* Display of f64 on a count of halves: 1.5 is "1.5", 2.0 is "2".
FloatToString(h) ==
    LET whole == ToString(Abs(h) \div 2)
        text == IF h % 2 = 0 THEN whole ELSE whole \o ".5"
    IN  IF h < 0 THEN "-" \o text ELSE text

\* A conversion to bool that takes only the positive integers for true.
TryFromBoolPositive(value) ==
    CASE value.t = "Boolean" -> Ok(Typed("bool", value.v))
      [] value.t = "Integer" -> Ok(Typed("bool", value.v > 0))
      [] value.t = "Float" -> Ok(Typed("bool", value.v # 0))
      [] value.t = "String" ->
            LET s == to_lowercase(value.v) IN
            IF s \in {"1", "true", "on", "yes"} THEN Ok(Typed("bool", TRUE))
            ELSE IF s \in {"0", "false", "off", "no"} THEN Ok(Typed("bool", FALSE))
            ELSE Err(invalid_type(UStr(s), "a boolean"))
      [] value.t = "Nil" -> Err(invalid_type(UUnit, "a boolean"))
      [] value.t = "Map" -> Err(invalid_type(UMap, "a boolean"))
      [] value.t = "Array" -> Err(invalid_type(UArray, "a boolean"))

TryFromBool(value) ==
    CASE value.t = "Boolean" -> Ok(Typed("bool", value.v))
      [] value.t = "Integer" -> Ok(Typed("bool", value.v # 0))
      [] value.t = "Float" -> Ok(Typed("bool", value.v # 0))
      [] value.t = "String" ->
            LET s == to_lowercase(value.v) IN
            IF s \in {"1", "true", "on", "yes"} THEN Ok(Typed("bool", TRUE))
            ELSE IF s \in {"0", "false", "off", "no"} THEN Ok(Typed("bool", FALSE))
            ELSE Err(invalid_type(UStr(s), "a boolean"))
      [] value.t = "Nil" -> Err(invalid_type(UUnit, "a boolean"))
      [] value.t = "Map" -> Err(invalid_type(UMap, "a boolean"))
      [] value.t = "Array" -> Err(invalid_type(UArray, "a boolean"))

\* A conversion to an integer type whose range leaves out the type's maximum.
TryFromIntExclusive(value, ty) ==
    CASE value.t = "Integer" ->
            IF value.v >= IntMin(ty) /\ value.v < IntMax(ty)
            THEN Ok(Typed(ty, value.v)) ELSE Err(too_large(value.v))
      [] value.t = "String" ->
            LET s == to_lowercase(value.v) IN
            IF s \in {"true", "on", "yes"} THEN Ok(Typed(ty, 1))
            ELSE IF s \in {"false", "off", "no"} THEN Ok(Typed(ty, 0))
            ELSE LET p == ParseInt(value.v, ty) IN
                 IF p.st = "Some" THEN Ok(Typed(ty, p.v))
                 ELSE Err(invalid_type(UStr(value.v), "an integer"))
      [] value.t = "Boolean" -> Ok(Typed(ty, IF value.v THEN 1 ELSE 0))
      [] value.t = "Float" -> Ok(Typed(ty, Saturate(RoundHalves(value.v), ty)))
      [] value.t = "Nil" -> Err(invalid_type(UUnit, "an integer"))
      [] value.t = "Map" -> Err(invalid_type(UMap, "an integer"))
      [] value.t = "Array" -> Err(invalid_type(UArray, "an integer"))

TryFromInt(value, ty) ==
    CASE value.t = "Integer" ->
            IF value.v >= IntMin(ty) /\ value.v <= IntMax(ty)
            THEN Ok(Typed(ty, value.v)) ELSE Err(too_large(value.v))
      [] value.t = "String" ->
            LET s == to_lowercase(value.v) IN
            IF s \in {"true", "on", "yes"} THEN Ok(Typed(ty, 1))
            ELSE IF s \in {"false", "off", "no"} THEN Ok(Typed(ty, 0))
            ELSE LET p == ParseInt(value.v, ty) IN
                 IF p.st = "Some" THEN Ok(Typed(ty, p.v))
                 ELSE Err(invalid_type(UStr(value.v), "an integer"))
      [] value.t = "Boolean" -> Ok(Typed(ty, IF value.v THEN 1 ELSE 0))
      [] value.t = "Float" -> Ok(Typed(ty, Saturate(RoundHalves(value.v), ty)))
      [] value.t = "Nil" -> Err(invalid_type(UUnit, "an integer"))
      [] value.t = "Map" -> Err(invalid_type(UMap, "an integer"))
      [] value.t = "Array" -> Err(invalid_type(UArray, "an integer"))

TryFromFloat(value) ==
    CASE value.t = "Float" -> Ok(Typed("f64", value.v))
      [] value.t = "String" ->
            LET s == to_lowercase(value.v) IN
            IF s \in {"true", "on", "yes"} THEN Ok(Typed("f64", 2))
            ELSE IF s \in {"false", "off", "no"} THEN Ok(Typed("f64", 0))
            ELSE LET p == DecimalOf(value.v) IN
                 IF p.st = "Some" THEN Ok(Typed("f64", 2 * p.v))
                 ELSE Err(invalid_type(UStr(value.v), "a floating point"))
      [] value.t = "Integer" -> Ok(Typed("f64", 2 * value.v))
      [] value.t = "Boolean" -> Ok(Typed("f64", IF value.v THEN 2 ELSE 0))
      [] value.t = "Nil" -> Err(invalid_type(UUnit, "a floating point"))
      [] value.t = "Map" -> Err(invalid_type(UMap, "a floating point"))
      [] value.t = "Array" -> Err(invalid_type(UArray, "a floating point"))

TryFromString(value) ==
    CASE value.t = "String" -> Ok(Typed("String", value.v))
      [] value.t = "Boolean" ->
            Ok(Typed("String", IF value.v THEN "true" ELSE "false"))
      [] value.t = "Integer" -> Ok(Typed("String", ToString(value.v)))
      [] value.t = "Float" -> Ok(Typed("String", FloatToString(value.v)))
      [] value.t = "Nil" -> Err(invalid_type(UUnit, "a string"))
      [] value.t = "Map" -> Err(invalid_type(UMap, "a string"))
      [] value.t = "Array" -> Err(invalid_type(UArray, "a string"))

try_into(value, ty) ==
    CASE ty = "bool" -> TryFromBool(value)
      [] ty = "String" -> TryFromString(value)
      [] ty = "f64" -> TryFromFloat(value)
      [] ty \in IntTypes -> TryFromInt(value, ty)

\* Value::get after the path is parsed: Ok(None), Ok(Some(converted)), Err(e),
\* or a panic raised in map_index.
get(self, path, ty) ==
    LET value == ScanLast(self, path, None) IN
    CASE value.st = "None" -> [st |-> "OkNone"]
      [] value.st = "panic" -> [st |-> "panic"]
      [] value.st = "Some" ->
            LET c == try_into(value.v, ty) IN
            IF c.st = "ok" THEN [st |-> "OkSome", v |-> c.v]
            ELSE [st |-> "Err", e |-> c.e]

----------------------------------------------------------------------------
(* Value::merge.  The result is st ("ok" or "err", with the error e) and    *)
(* node, the target as the call leaves it: the ? in the loops returns at    *)
(* the first error and keeps what the earlier iterations did.  order is the *)
(* order in which the source HashMaps are iterated, as a sequence of keys.  *)

\* The Unexpected a source of another variant is reported as.
UnexpectedOf(source) ==
    CASE source.t = "Float" -> UFloat(source.v)
      [] source.t = "String" -> UStr(source.v)
      [] source.t = "Integer" -> UInteger(source.v)
      [] source.t = "Boolean" -> UBool(source.v)
      [] source.t = "Array" -> UArray
      [] source.t = "Map" -> UMap

\* The kinds the conversions name, in place of the ones merge names.
ExpectedOfConversions(target) ==
    CASE target.t = "Boolean" -> "a boolean"
      [] target.t = "Integer" -> "an integer"
      [] target.t = "Float" -> "a floating point"
      [] target.t = "String" -> "a string"
      [] target.t = "Map" -> "a map"
      [] target.t = "Array" -> "a array"

\* The expected kind each arm of the match on self names.
ExpectedOf(target) ==
    CASE target.t = "Boolean" -> "a bool"
      [] target.t = "Integer" -> "a integer"
      [] target.t = "Float" -> "a float"
      [] target.t = "String" -> "a string"
      [] target.t = "Map" -> "a map"
      [] target.t = "Array" -> "a array"

\* The keys of a source map in the order they are iterated.
IterKeys(m, order) == SelectSeq(order, LAMBDA k : k \in DOMAIN m)

RECURSIVE merge(_, _, _)

\* A loop that inserts every source entry, over the entry the target has.
MergeEntryInsertsOver(v_t, k, v, order) == [st |-> "ok", m |-> MapPut(v_t, k, v)]

\* One iteration of the loop over a source Map: (k, v) into v_t.
MergeEntry(v_t, k, v, order) ==
    IF k \in DOMAIN v_t
    THEN LET r == merge(v_t[k], v, order) IN
         IF r.st = "ok" THEN [st |-> "ok", m |-> [v_t EXCEPT ![k] = r.node]]
         ELSE [st |-> "err", e |-> r.e, m |-> [v_t EXCEPT ![k] = r.node]]
    ELSE [st |-> "ok", m |-> MapPut(v_t, k, v)]

RECURSIVE MergeEntries(_, _, _, _)
MergeEntries(v_t, v_s, ks, order) ==
    IF ks = <<>> THEN [st |-> "ok", m |-> v_t]
    ELSE LET r == MergeEntry(v_t, Head(ks), v_s[Head(ks)], order) IN
         IF r.st = "err" THEN r
         ELSE MergeEntries(r.m, v_s, Tail(ks), order)

\* A loop that writes every source element over the element the target has.
MergeElemOverwrites(v_t, index, v, order) ==
    IF index <= Len(v_t) THEN [st |-> "ok", a |-> [v_t EXCEPT ![index] = v]]
    ELSE [st |-> "ok", a |-> Append(v_t, v)]

\* One iteration of the loop over a source Array: (index, v) into v_t, index
\* counted from 1 here.
MergeElem(v_t, index, v, order) ==
    IF index <= Len(v_t)
    THEN LET r == merge(v_t[index], v, order) IN
         IF r.st = "ok" THEN [st |-> "ok", a |-> [v_t EXCEPT ![index] = r.node]]
         ELSE [st |-> "err", e |-> r.e, a |-> [v_t EXCEPT ![index] = r.node]]
    ELSE [st |-> "ok", a |-> Append(v_t, v)]

RECURSIVE MergeElems(_, _, _, _)
MergeElems(v_t, v_s, index, order) ==
    IF index > Len(v_s) THEN [st |-> "ok", a |-> v_t]
    ELSE LET r == MergeElem(v_t, index, v_s[index], order) IN
         IF r.st = "err" THEN r
         ELSE MergeElems(r.a, v_s, index + 1, order)

\* A Nil source that erases what the target holds.
MergeNilSourceErases(self) == [st |-> "ok", node |-> Nil]

\* The arm Value::Nil => Ok(()) of each match on source.
MergeNilSource(self) == [st |-> "ok", node |-> self]

\* A source of another variant that the target silently takes the shape of.
MergeMismatchTakesSource(self, source, expected) == [st |-> "ok", node |-> source]

\* The arms under "Cannot convert": the source is of another variant.
MergeMismatch(self, source, expected) ==
    [st |-> "err", e |-> invalid_type(UnexpectedOf(source), expected), node |-> self]

merge(self, source, order) ==
    CASE self.t = "Nil" -> [st |-> "ok", node |-> source]
      [] self.t # "Nil" /\ source.t = "Nil" -> MergeNilSource(self)
      [] self.t = "Map" /\ source.t = "Map" ->
            LET r == MergeEntries(self.m, source.m, IterKeys(source.m, order), order)
            IN  IF r.st = "ok" THEN [st |-> "ok", node |-> Map(r.m)]
                ELSE [st |-> "err", e |-> r.e, node |-> Map(r.m)]
      [] self.t = "Array" /\ source.t = "Array" ->
            LET r == MergeElems(self.a, source.a, 1, order)
            IN  IF r.st = "ok" THEN [st |-> "ok", node |-> Array(r.a)]
                ELSE [st |-> "err", e |-> r.e, node |-> Array(r.a)]
      [] IsScalar(self) /\ source.t = self.t -> [st |-> "ok", node |-> source]
      [] OTHER -> MergeMismatch(self, source, ExpectedOf(self))

----------------------------------------------------------------------------
(* The paths PathParser::parse_to_path returns: each segment of the string  *)
(* pushes an Identifier, or an Identifier and the Index that follows it.    *)

Segments ==
    {<<Identifier(id)>> : id \in Keys}
    \cup {<<Identifier(id), Index(i)>> : id \in Keys, i \in Indices}

RECURSIVE PathsOf(_)
PathsOf(n) ==
    IF n = 0 THEN {<<>>}
    ELSE LET shorter == PathsOf(n - 1) IN
         {q \in shorter \cup {p \o s : p \in shorter, s \in Segments} : Len(q) <= n}

Paths == PathsOf(MaxPathLen)

\* The values handed to set: Into<Value> of the primitives and of a Vec.
InputValues ==
    {Boolean(TRUE), Integer(5), Float(3), String("x"), Array(<<>>)}

\* The types asked of get.
GetTypes == {"bool", "i8", "f64", "String"}

----------------------------------------------------------------------------
(* The state machine: a Value, first Value::default(), and the calls made   *)
(* on it.  A panic ends the program.                                        *)

Init ==
    /\ overflowChecks \in BOOLEAN
    /\ root = Nil
    /\ last = [op |-> "init", st |-> "ok"]

Alive == last.st # "panic"

\* root.set(path, input_value)
Set(path, input_value) ==
    /\ Alive
    /\ LET r == SetWalk(root, path, input_value) IN
       /\ NonNil(r.node) <= MaxNodes
       /\ root' = r.node
       /\ last' = [op |-> "set", path |-> path, input |-> input_value,
                   pre |-> root, st |-> r.st, ret |-> r.old]
    /\ UNCHANGED overflowChecks

\* root.get::<ty>(path); after: the set of this same path that the call before
\* was, if it was one.
Get(path, ty) ==
    /\ Alive
    /\ LET res == get(root, path, ty) IN
       last' = [op |-> "get", path |-> path, ty |-> ty,
                st |-> IF res.st = "panic" THEN "panic" ELSE "ok", res |-> res,
                after |-> IF last.op = "set" /\ last.path = path
                          THEN [some |-> TRUE, input |-> last.input]
                          ELSE [some |-> FALSE]]
    /\ UNCHANGED <<overflowChecks, root>>

Next ==
    \/ \E path \in Paths, input_value \in InputValues : Set(path, input_value)
    \/ \E path \in Paths, ty \in GetTypes : Get(path, ty)

Spec == Init /\ [][Next]_vars

----------------------------------------------------------------------------
(* merge as a function of its target and its source: the target is any of   *)
(* the trees of at most MaxMergeNodes nodes (set builds each of them), one   *)
(* merge of any such source is applied to it.                                *)

MaxMergeNodes == 3

MergeLeaves ==
    {Nil, Boolean(TRUE), Boolean(FALSE), Integer(5), Float(3), String("x")}

KeyOrders == {<<"a", "b">>, <<"b", "a">>}

RECURSIVE TreesOf(_)
RECURSIVE SeqsOf(_)
RECURSIVE MapsOf(_, _)

\* The trees of at most n nodes.
TreesOf(n) ==
    IF n <= 0 THEN {}
    ELSE MergeLeaves
         \cup {Map(m) : m \in MapsOf(n - 1, <<"a", "b">>)}
         \cup {Array(a) : a \in SeqsOf(n - 1)}

\* The sequences of trees of at most n nodes in all.
SeqsOf(n) ==
    {<<>>} \cup UNION {{<<t>> \o s : s \in SeqsOf(n - Size(t))} : t \in TreesOf(n)}

\* The maps over some of the keys ks whose values have at most n nodes in all.
MapsOf(n, ks) ==
    IF ks = <<>> THEN {EmptyMap}
    ELSE MapsOf(n, Tail(ks))
         \cup UNION {{MapPut(m, Head(ks), t) : m \in MapsOf(n - Size(t), Tail(ks))}
                     : t \in TreesOf(n)}

MergeTrees == TreesOf(MaxMergeNodes)

InitMerge ==
    /\ overflowChecks \in BOOLEAN
    /\ root \in MergeTrees
    /\ last = [op |-> "init", st |-> "ok"]

\* root.merge(source)
Merge(source, order) ==
    /\ last.op = "init"
    /\ LET r == merge(root, source, order) IN
       /\ root' = r.node
       /\ last' = [op |-> "merge", source |-> source, order |-> order, pre |-> root,
                   st |-> r.st, e |-> IF r.st = "err" THEN r.e ELSE <<>>]
    /\ UNCHANGED overflowChecks

NextMerge == \E source \in MergeTrees, order \in KeyOrders : Merge(source, order)

SpecMerge == InitMerge /\ [][NextMerge]_vars

----------------------------------------------------------------------------
(* What the properties below speak of: the node a path addresses, by the   *)
(* rules of the path language (an Index below zero counts from the end).    *)

PosOf(i, len) == IF i >= 0 THEN i + 1 ELSE len + i + 1

RECURSIVE Resolve(_, _)
Resolve(value, path) ==
    IF path = <<>> THEN Some(value)
    ELSE LET n == Head(path) IN
         IF n.k = "Identifier" THEN
            IF value.t = "Map" /\ n.id \in DOMAIN value.m
            THEN Resolve(value.m[n.id], Tail(path)) ELSE None
         ELSE
            IF value.t = "Array" /\ PosOf(n.ix, Len(value.a)) \in 1 .. Len(value.a)
            THEN Resolve(value.a[PosOf(n.ix, Len(value.a))], Tail(path)) ELSE None

\* Why the first segment that does not resolve does not, or "resolves".
RECURSIVE FirstFail(_, _)
FirstFail(value, path) ==
    IF path = <<>> THEN "resolves"
    ELSE LET n == Head(path) IN
         IF n.k = "Identifier" THEN
            IF value.t # "Map" THEN "identifier at a non-Map"
            ELSE IF n.id \notin DOMAIN value.m THEN "absent key"
            ELSE FirstFail(value.m[n.id], Tail(path))
         ELSE
            IF value.t # "Array" THEN "index at a non-Array"
            ELSE IF PosOf(n.ix, Len(value.a)) \notin 1 .. Len(value.a)
                 THEN "index out of range"
            ELSE FirstFail(value.a[PosOf(n.ix, Len(value.a))], Tail(path))

Prefix(path, n) == SubSeq(path, 1, n)

\* What get(path) at ty gives when it is handed the node `value`.
Converted(value, ty) ==
    LET c == try_into(value, ty) IN
    IF c.st = "ok" THEN [st |-> "OkSome", v |-> c.v] ELSE [st |-> "Err", e |-> c.e]

\* The type a scalar of the model was made from.
OwnType(value) ==
    CASE value.t = "Boolean" -> "bool"
      [] value.t = "Integer" -> "i8"
      [] value.t = "String" -> "String"
      [] value.t = "Float" -> "f64"

IsSet == last.op = "set"
IsGet == last.op = "get"

----------------------------------------------------------------------------
\* C1: a get of the path a set has just written (the root path included), at
\* the type of the non-Nil scalar written, returns Some of that scalar; the
\* same after a second set of the path.
C1_GetAfterSet ==
    (IsGet /\ last.after.some /\ IsScalar(last.after.input)
        /\ last.ty = OwnType(last.after.input))
    => last.res = [st |-> "OkSome", v |-> Typed(last.ty, last.after.input.v)]

\* C2: get returns Ok(None) when a segment fails to resolve because it is an
\* Identifier at a non-Map, an absent key, or an Index at a non-Array; it
\* never returns the value found at a prefix.
C2_GetUnresolvedIsNone ==
    (IsGet /\ FirstFail(root, last.path) \in
                {"identifier at a non-Map", "absent key", "index at a non-Array"})
    => last.res = [st |-> "OkNone"]

\* C3: get with the empty path returns the root converted to the type asked
\* for, not None.
C3_GetRootPath ==
    (IsGet /\ last.path = <<>>)
    => (last.res # [st |-> "OkNone"] /\ last.res = Converted(root, last.ty))

\* C4: a set that returns gives back the value the slot held just before the
\* call, Nil when the slot did not exist, and leaves the input in the slot.
C4_SetReturnsOld ==
    (IsSet /\ last.st = "ok")
    => LET before == Resolve(last.pre, last.path) IN
       /\ last.ret = (IF before.st = "Some" THEN before.v ELSE Nil)
       /\ Resolve(root, last.path) = Some(last.input)

C4_Witness ==
    /\ IsSet /\ last.st = "ok" /\ Len(last.path) = 2
    /\ Resolve(last.pre, last.path).st = "Some"
    /\ last.ret \notin {Nil, last.input}

\* C5: an Identifier segment met at a node that is not a Map leaves at that
\* node a Map holding the segment's key alone; set("/a/b", true) on a Nil or a
\* String root leaves Map{a: Map{b: Boolean(true)}}.
C5_IdentifierReplacesNonMap ==
    IsSet =>
       /\ \A j \in 1 .. Len(last.path) :
            LET before == Resolve(last.pre, Prefix(last.path, j - 1)) IN
            (last.path[j].k = "Identifier" /\ before.st = "Some"
                /\ before.v.t # "Map")
            => LET now == Resolve(root, Prefix(last.path, j - 1)) IN
               /\ now.st = "Some" /\ now.v.t = "Map"
               /\ DOMAIN now.v.m = {last.path[j].id}
       /\ (last.pre.t \in {"Nil", "String"}
              /\ last.path = <<Identifier("a"), Identifier("b")>>
              /\ last.input = Boolean(TRUE))
          => root = Map([k \in {"a"} |-> Map([q \in {"b"} |-> Boolean(TRUE)])])

C5_Witness ==
    /\ IsSet /\ last.pre = String("x")
    /\ last.path = <<Identifier("a"), Identifier("b")>>
    /\ last.input = Boolean(TRUE)

\* The array an Index segment at position j of the path meets, if the path
\* before it resolves to one.
ArrayMet(value, path, j) ==
    LET before == Resolve(value, Prefix(path, j - 1)) IN
    IF path[j].k = "Index" /\ before.st = "Some" /\ before.v.t = "Array"
    THEN Some(before.v.a) ELSE None

\* C6: an Index i >= len met by set on an Array of length len does not fail:
\* the array grows by a slot at position i, which takes the input when the
\* segment is the last one.
C6_SetIndexBeyondEnd ==
    IsSet =>
       \A j \in 1 .. Len(last.path) :
          LET met == ArrayMet(last.pre, last.path, j) IN
          (met.st = "Some" /\ last.path[j].ix >= Len(met.v))
          => /\ last.st = "ok"
             /\ LET now == Resolve(root, Prefix(last.path, j - 1)) IN
                /\ now.st = "Some" /\ now.v.t = "Array"
                /\ Len(now.v.a) > Len(met.v)
                /\ Len(now.v.a) > last.path[j].ix
                /\ j = Len(last.path) => now.v.a[last.path[j].ix + 1] = last.input

\* C7: set on a parsed path always returns Ok; it never aborts.
C7_SetNeverAborts == IsSet => last.st = "ok"

\* C8: Index(-k), 1 <= k <= len, on an Array of length len is position len - k
\* (0-based) in get and in set.
C8_NegativeIndex ==
    \A j \in 1 .. (IF last.op \in {"get", "set"} THEN Len(last.path) ELSE 0) :
       LET tree == IF IsSet THEN last.pre ELSE root
           met == ArrayMet(tree, last.path, j)
           k == 0 - last.path[j].ix
       IN  (met.st = "Some" /\ k >= 1 /\ k <= Len(met.v) /\ j = Len(last.path))
           => LET elem == met.v[Len(met.v) - k + 1] IN
              IF IsGet THEN last.res = Converted(elem, last.ty)
              ELSE /\ last.st = "ok" /\ last.ret = elem
                   /\ Resolve(root, Prefix(last.path, j - 1)) =
                        Some(Array([met.v EXCEPT ![Len(met.v) - k + 1] = last.input]))

C8_Witness ==
    /\ IsGet /\ last.after.some /\ last.after.input = String("x")
    /\ Len(last.path) = 2 /\ last.path[2] = Index(0 - 1)
    /\ Resolve(root, Prefix(last.path, 1)).v.t = "Array"
    /\ Len(Resolve(root, Prefix(last.path, 1)).v.a) = 2
    /\ last.res = [st |-> "OkSome", v |-> Typed("String", "x")]

\* C9: get with an Index out of range for the Array it meets returns Ok(None)
\* whatever the type asked for.
C9_GetOutOfRangeIsNone ==
    (IsGet /\ FirstFail(root, last.path) = "index out of range")
    => last.res = [st |-> "OkNone"]

IsMerge == last.op = "merge"

\* C10: a merge of a Map into a Map that succeeds leaves the union of the key
\* sets: a key of the target alone keeps its value, a key of the source alone
\* takes the source's value, a key of both holds the source's value merged
\* into the target's (the source's value itself for scalars of one variant).
C10_MergeMaps ==
    (IsMerge /\ last.st = "ok" /\ last.pre.t = "Map" /\ last.source.t = "Map")
    => LET t == last.pre.m
           s == last.source.m
       IN  /\ root.t = "Map"
           /\ DOMAIN root.m = (DOMAIN t) \cup (DOMAIN s)
           /\ \A k \in (DOMAIN t) \ (DOMAIN s) : root.m[k] = t[k]
           /\ \A k \in (DOMAIN s) \ (DOMAIN t) : root.m[k] = s[k]
           /\ \A k \in (DOMAIN s) \cap (DOMAIN t) :
                 /\ root.m[k] = merge(t[k], s[k], last.order).node
                 /\ (IsScalar(t[k]) /\ s[k].t = t[k].t) => root.m[k] = s[k]

C10_Witness ==
    /\ IsMerge /\ last.st = "ok"
    /\ last.pre = Map([k \in {"a", "b"} |->
                        IF k = "a" THEN Boolean(TRUE) ELSE String("x")])
    /\ last.source = Map([k \in {"a"} |-> Boolean(FALSE)])
    /\ root = Map([k \in {"a", "b"} |->
                    IF k = "a" THEN Boolean(FALSE) ELSE String("x")])

----------------------------------------------------------------------------
Min(x, y) == IF x <= y THEN x ELSE y
Max(x, y) == IF x >= y THEN x ELSE y

\* r is t wherever the source s is Nil: at the node itself, and at the keys
\* and positions s shares with t further down.
RECURSIVE NilSourceKeeps(_, _, _)
NilSourceKeeps(t, s, r) ==
    IF s.t = "Nil" THEN r = t
    ELSE IF t.t = "Map" /\ s.t = "Map" THEN
        /\ r.t = "Map"
        /\ \A k \in (DOMAIN s.m) \cap (DOMAIN t.m) :
              k \in DOMAIN r.m /\ NilSourceKeeps(t.m[k], s.m[k], r.m[k])
    ELSE IF t.t = "Array" /\ s.t = "Array" THEN
        /\ r.t = "Array"
        /\ \A i \in 1 .. Min(Len(s.a), Len(t.a)) :
              i <= Len(r.a) /\ NilSourceKeeps(t.a[i], s.a[i], r.a[i])
    ELSE TRUE

\* C11: merge(target, Nil) returns Ok and leaves the target as it was, for a
\* target of every variant; the same holds of a Nil met further down in the
\* source, at a key or a position the target has.
C11_MergeNilIsNoOp ==
    IsMerge =>
       /\ last.source = Nil => (last.st = "ok" /\ root = last.pre)
       /\ NilSourceKeeps(last.pre, last.source, root)

C11_Witness ==
    /\ IsMerge /\ last.source = Nil /\ last.st = "ok"
    /\ last.pre = Map([k \in {"a"} |-> Array(<<Boolean(TRUE)>>)])
    /\ root = last.pre

\* The kind a scalar target is named by in merge's Type error.
ScalarKind(value) ==
    CASE value.t = "Boolean" -> "a bool"
      [] value.t = "Integer" -> "a integer"
      [] value.t = "Float" -> "a float"
      [] value.t = "String" -> "a string"

\* The description of a source in merge's Type error: its kind, and its
\* payload when it is a scalar.
Describes(unexpected, source) ==
    CASE source.t = "Boolean" -> unexpected = [u |-> "Bool", v |-> source.v]
      [] source.t = "Integer" -> unexpected = [u |-> "Integer", v |-> source.v]
      [] source.t = "Float" -> unexpected = [u |-> "Float", v |-> source.v]
      [] source.t = "String" -> unexpected = [u |-> "Str", v |-> source.v]
      [] source.t = "Array" -> unexpected = [u |-> "Array"]
      [] source.t = "Map" -> unexpected = [u |-> "Map"]

\* C12: merge into a scalar target of a non-Nil source of another variant
\* returns a Type error that expects the target's kind and describes the
\* source, and leaves the target as it was; a source of the target's variant
\* overwrites the payload.
C12_MergeScalar ==
    (IsMerge /\ IsScalar(last.pre) /\ last.source # Nil)
    => IF last.source.t = last.pre.t
       THEN last.st = "ok" /\ root = last.source
       ELSE /\ last.st = "err"
            /\ last.e.kind = "Type"
            /\ last.e.expected = ScalarKind(last.pre)
            /\ Describes(last.e.unexpected, last.source)
            /\ root = last.pre

C12_Witness ==
    /\ IsMerge /\ last.pre = Boolean(TRUE) /\ last.source = Float(3)
    /\ last.st = "err"
    /\ last.e = [kind |-> "Type", unexpected |-> [u |-> "Float", v |-> 3],
                 expected |-> "a bool"]
    /\ root = Boolean(TRUE)

\* C13: a merge of an Array s into an Array t that succeeds leaves t with
\* length max(len t, len s): below both lengths t[i] is s[i] merged into the
\* old t[i], from the old len t on t[i] is s[i], from len s on t[i] is as it
\* was.
C13_MergeArrays ==
    (IsMerge /\ last.st = "ok" /\ last.pre.t = "Array" /\ last.source.t = "Array")
    => LET t == last.pre.a
           s == last.source.a
       IN  /\ root.t = "Array"
           /\ Len(root.a) = Max(Len(t), Len(s))
           /\ Len(root.a) >= Len(t)
           /\ \A i \in 1 .. Len(root.a) :
                 root.a[i] = (IF i <= Len(t) /\ i <= Len(s)
                              THEN merge(t[i], s[i], last.order).node
                              ELSE IF i > Len(t) THEN s[i] ELSE t[i])

C13_Witness ==
    /\ IsMerge /\ last.st = "ok"
    /\ last.pre = Array(<<Boolean(TRUE)>>)
    /\ last.source = Array(<<Nil, Integer(5)>>)
    /\ root = Array(<<Boolean(TRUE), Integer(5)>>)

\* r has the shape of t: every node of t other than Nil is of the same
\* variant in r, every key and every position of t is in r.
RECURSIVE ShapeKept(_, _)
ShapeKept(t, r) ==
    CASE t.t = "Nil" -> TRUE
      [] t.t = "Map" ->
            /\ r.t = "Map"
            /\ (DOMAIN t.m) \subseteq (DOMAIN r.m)
            /\ \A k \in DOMAIN t.m : ShapeKept(t.m[k], r.m[k])
      [] t.t = "Array" ->
            /\ r.t = "Array"
            /\ Len(r.a) >= Len(t.a)
            /\ \A i \in 1 .. Len(t.a) : ShapeKept(t.a[i], r.a[i])
      [] OTHER -> r.t = t.t

\* C14: after a merge that succeeds every node of the target that was not Nil
\* is of the variant it was, and no key of a Map and no element of an Array is
\* gone.
C14_MergeKeepsShape == (IsMerge /\ last.st = "ok") => ShapeKept(last.pre, root)

C14_Witness ==
    /\ IsMerge /\ last.st = "ok"
    /\ last.pre = Map([k \in {"a", "b"} |-> IF k = "a" THEN Nil ELSE Boolean(TRUE)])
    /\ last.source = Map([k \in {"a", "b"} |->
                            IF k = "a" THEN Integer(5) ELSE Boolean(FALSE)])
    /\ root = last.source

\* C15: a merge that returns an error leaves the target as it was before the
\* call, also when the mismatch is met inside a Map or an Array after other
\* keys or elements of the source were merged or inserted.
C15_MergeErrorKeepsTarget == (IsMerge /\ last.st = "err") => root = last.pre

----------------------------------------------------------------------------
(* Path strings.  A str is a sequence of one-character strings here, so    *)
(* that formatting and parsing work on its characters.                      *)

DigitChars == <<"0", "1", "2", "3", "4", "5", "6", "7", "8", "9">>
IsDigit(c) == \E d \in 1 .. Len(DigitChars) : DigitChars[d] = c
DigitOf(c) == (CHOOSE d \in 1 .. Len(DigitChars) : DigitChars[d] = c) - 1

\* The String a sequence of characters is.
RECURSIVE Concat(_)
Concat(cs) == IF cs = <<>> THEN "" ELSE Head(cs) \o Concat(Tail(cs))

\* Display of a usize.
RECURSIVE UsizeToString(_)
UsizeToString(n) ==
    IF n < 10 THEN <<DigitChars[n + 1]>>
    ELSE UsizeToString(n \div 10) \o <<DigitChars[(n % 10) + 1]>>

\* str::parse::<isize>() on a text the grammar took for an index.
RECURSIVE ParseDigits(_, _)
ParseDigits(cs, acc) ==
    IF cs = <<>> THEN acc ELSE ParseDigits(Tail(cs), 10 * acc + DigitOf(Head(cs)))

ParseIsize(cs) ==
    IF Head(cs) = "-" THEN 0 - ParseDigits(Tail(cs), 0) ELSE ParseDigits(cs, 0)

(* The grammar path/path.pest, as section 4.2 of the specification gives it: *)
(* "/" alone, or segments each led by "/"; a segment is an identifier of    *)
(* [A-Za-z0-9_-] characters, then zero or more "[" signed integer "]".      *)
(* A parse gives, per segment, the text of the identifier and the texts of  *)
(* the indices (the inner pairs of the segment).                            *)

Letters ==
    {"a", "b", "c", "d", "e", "f", "g", "h", "i", "j", "k", "l", "m",
     "n", "o", "p", "q", "r", "s", "t", "u", "v", "w", "x", "y", "z"}

IsIdentChar(c) == c \in Letters \cup {"_", "-"} \/ IsDigit(c)

\* The first position at or after from where s holds c, Len(s) + 1 if none.
RECURSIVE Find(_, _, _)
Find(s, c, from) ==
    IF from > Len(s) THEN Len(s) + 1
    ELSE IF s[from] = c THEN from
    ELSE Find(s, c, from + 1)

IsPathIndex(cs) ==
    LET ds == IF cs # <<>> /\ Head(cs) = "-" THEN Tail(cs) ELSE cs IN
    ds # <<>> /\ \A i \in 1 .. Len(ds) : IsDigit(ds[i])

RECURSIVE PestIndices(_)
PestIndices(cs) ==
    IF cs = <<>> THEN [st |-> "ok", indices |-> <<>>]
    ELSE IF Head(cs) # "[" THEN [st |-> "err"]
    ELSE LET close == Find(cs, "]", 2)
             text == SubSeq(cs, 2, close - 1)
         IN  IF close > Len(cs) \/ ~IsPathIndex(text) THEN [st |-> "err"]
             ELSE LET rest == PestIndices(SubSeq(cs, close + 1, Len(cs))) IN
                  IF rest.st = "err" THEN rest
                  ELSE [st |-> "ok", indices |-> <<text>> \o rest.indices]

PestSubPath(cs) ==
    LET open == Find(cs, "[", 1)
        ident == SubSeq(cs, 1, open - 1)
    IN  IF ident = <<>> \/ \E i \in 1 .. Len(ident) : ~IsIdentChar(ident[i])
        THEN [st |-> "err"]
        ELSE LET ix == PestIndices(SubSeq(cs, open, Len(cs))) IN
             IF ix.st = "err" THEN ix
             ELSE [st |-> "ok", ident |-> ident, indices |-> ix.indices]

RECURSIVE PestSubPaths(_)
PestSubPaths(cs) ==
    IF cs = <<>> THEN [st |-> "ok", pairs |-> <<>>]
    ELSE IF Head(cs) # "/" THEN [st |-> "err"]
    ELSE LET next == Find(cs, "/", 2)
             sub_path == PestSubPath(SubSeq(cs, 2, next - 1))
         IN  IF sub_path.st = "err" THEN sub_path
             ELSE LET rest == PestSubPaths(SubSeq(cs, next, Len(cs))) IN
                  IF rest.st = "err" THEN rest
                  ELSE [st |-> "ok",
                        pairs |-> <<[ident |-> sub_path.ident,
                                     indices |-> sub_path.indices]>> \o rest.pairs]

\* PathParser::parse(Rule::path, s)
PestParse(s) ==
    IF s = <<>> THEN [st |-> "err"]
    ELSE IF s = <<"/">> THEN [st |-> "ok", pairs |-> <<>>]
    ELSE PestSubPaths(s)

path_parse(s) == [kind |-> "PathParse", s |-> s]
serde(message) == [kind |-> "Message", msg |-> message]

\* A body of the loop that pushes the Index before the Identifier.
SubPathNodesIndexFirst(sub_path) ==
    IF sub_path.indices = <<>> THEN <<Identifier(Concat(sub_path.ident))>>
    ELSE <<Index(ParseIsize(Head(sub_path.indices))),
           Identifier(Concat(sub_path.ident))>>

\* The body of the loop over the segments: what one sub_path pushes.  Of a
\* path_index_ident it takes the first two inner pairs.
SubPathNodes(sub_path) ==
    IF sub_path.indices = <<>> THEN <<Identifier(Concat(sub_path.ident))>>
    ELSE <<Identifier(Concat(sub_path.ident)),
           Index(ParseIsize(Head(sub_path.indices)))>>

RECURSIVE PathOfPairs(_)
PathOfPairs(pairs) ==
    IF pairs = <<>> THEN <<>>
    ELSE SubPathNodes(Head(pairs)) \o PathOfPairs(Tail(pairs))

\* isize::max_value(), at the width the model gives usize.
IsizeMax == 2 ^ (UsizeBits - 1) - 1

\* str::parse::<isize>() is Ok on the text: the unwrap() after it returns.
FitsIsize(cs) == ParseIsize(cs) >= 0 - IsizeMax - 1 /\ ParseIsize(cs) <= IsizeMax

\* Some segment's first index, the one the loop parses, is not an isize.
IndexOverflows(pairs) ==
    \E i \in 1 .. Len(pairs) :
       pairs[i].indices # <<>> /\ ~FitsIsize(Head(pairs[i].indices))

\* parse_to_path after PathParser::parse: the error mapped, or the loop over
\* the segments, whose unwrap() panics on an index that is not an isize.
PathOfParse(s, path) ==
    IF path.st = "err" THEN Err(path_parse(s))
    ELSE IF IndexOverflows(path.pairs) THEN [st |-> "panic"]
    ELSE Ok(PathOfPairs(path.pairs))

\* PathParser::parse_to_path
parse_to_path(s) == PathOfParse(s, PestParse(s))

\* A set that empties the tree when the path string does not parse.
SetParsedClears(self, path, input_value) ==
    IF path.st = "err" THEN [st |-> "err", e |-> path.e, node |-> Nil]
    ELSE IF path.st = "panic" THEN [st |-> "panic", node |-> self]
    ELSE SetWalk(self, path.v, input_value)

\* Value::set after path.try_into(): the ? returns the error of the parse
\* before the walk starts.
SetParsed(self, path, input_value) ==
    IF path.st = "err" THEN [st |-> "err", e |-> path.e, node |-> self]
    ELSE IF path.st = "panic" THEN [st |-> "panic", node |-> self]
    ELSE SetWalk(self, path.v, input_value)

\* Value::set called with a path string.
set(self, s, input_value) == SetParsed(self, parse_to_path(s), input_value)

----------------------------------------------------------------------------
(* parse_to_path as a function of the string: one parse is applied to a    *)
(* string written from a list of segments, or to a string that is not a    *)
(* path.                                                                    *)

MaxSegs == 3       \* segments of a path string

PathIdents == {<<"a">>, <<"b">>, <<"c">>}

\* A segment as it is written: the identifier and the indices after it.
SegTexts ==
    {[ident |-> id, ixs |-> <<>>] : id \in PathIdents}
    \cup {[ident |-> id, ixs |-> <<i>>] : id \in PathIdents, i \in Indices}
    \cup {[ident |-> id, ixs |-> <<0, i>>] : id \in PathIdents, i \in Indices}

RECURSIVE SegListsOf(_)
SegListsOf(n) ==
    IF n = 0 THEN {<<>>}
    ELSE LET shorter == SegListsOf(n - 1) IN
         shorter \cup {l \o <<g>> : l \in {q \in shorter : Len(q) = n - 1},
                                    g \in SegTexts}

SegLists == SegListsOf(MaxSegs)

IsizeToString(i) == IF i < 0 THEN <<"-">> \o UsizeToString(0 - i) ELSE UsizeToString(i)

RECURSIVE RenderIndices(_)
RenderIndices(ixs) ==
    IF ixs = <<>> THEN <<>>
    ELSE <<"[">> \o IsizeToString(Head(ixs)) \o <<"]">> \o RenderIndices(Tail(ixs))

RECURSIVE RenderSegs(_)
RenderSegs(segs) ==
    IF segs = <<>> THEN <<>>
    ELSE <<"/">> \o Head(segs).ident \o RenderIndices(Head(segs).ixs)
         \o RenderSegs(Tail(segs))

RenderPath(segs) == IF segs = <<>> THEN <<"/">> ELSE RenderSegs(segs)

\* Strings that are not paths: "", "a", "/a[", "/a[]", "/a[b]", "/[0]".
NotPaths ==
    {<<>>, <<"a">>, <<"/", "a", "[">>, <<"/", "a", "[", "]">>,
     <<"/", "a", "[", "b", "]">>, <<"/", "[", "0", "]">>}

\* s.parse::<Path>(); written: the segments s was written from, if any.
ParsePath(s, written) ==
    /\ last.op = "init"
    /\ last' = [op |-> "parse", st |-> "ok", s |-> s, written |-> written,
                res |-> parse_to_path(s)]
    /\ UNCHANGED <<overflowChecks, root>>

NextParse ==
    \/ \E segs \in SegLists : ParsePath(RenderPath(segs), Some(segs))
    \/ \E s \in NotPaths : ParsePath(s, None)

SpecParse == Init /\ [][NextParse]_vars

----------------------------------------------------------------------------
IsParse == last.op = "parse"

\* The nodes a list of written segments of at most one index each stands for.
RECURSIVE NodesOfSegs(_)
NodesOfSegs(segs) ==
    IF segs = <<>> THEN <<>>
    ELSE LET g == Head(segs) IN
         <<[k |-> "Identifier", id |-> Concat(g.ident)]>>
         \o (IF g.ixs = <<>> THEN <<>> ELSE <<[k |-> "Index", ix |-> g.ixs[1]]>>)
         \o NodesOfSegs(Tail(segs))

----------------------------------------------------------------------------
(* value/ser.rs.  The data given to to_value is described by the Serializer *)
(* calls its Serialize makes: a primitive, a sequence (or tuple) of items,  *)
(* a struct of named fields, a map of entries.  A ValueSerializer is the    *)
(* record [keys, output]; keys is the stack of (full key, index) pairs.     *)

DBool(b) == [t |-> "bool", v |-> b]
DI64(n) == [t |-> "i64", v |-> n]
DU64(n) == [t |-> "u64", v |-> n]
DF64(h) == [t |-> "f64", v |-> h]
DStr(cs) == [t |-> "str", v |-> cs]
DUnit == [t |-> "unit"]
DSeq(items) == [t |-> "seq", items |-> items]
DStruct(fields) == [t |-> "struct", fields |-> fields]
DMap(entries) == [t |-> "map", entries |-> entries]
\* The variants of an enum that carry a payload: E::V(value), E::V(items..),
\* E::V { fields.. }.
DNewtypeVariant(variant, value) ==
    [t |-> "newtype_variant", variant |-> variant, value |-> value]
DTupleVariant(variant, items) ==
    [t |-> "tuple_variant", variant |-> variant, items |-> items]
DStructVariant(variant, fields) ==
    [t |-> "struct_variant", variant |-> variant, fields |-> fields]

IsPrimitive(from) == from.t \in {"bool", "i64", "u64", "f64", "str", "unit"}

\* ValueSerializer::default()
DefaultSerializer == [keys |-> <<>>, output |-> Nil]

last_key_index_pair(keys) ==
    IF Len(keys) > 0 THEN Some(keys[Len(keys)]) ELSE None

inc_last_key_index(keys) ==
    IF Len(keys) > 0
    THEN Ok([keys EXCEPT ![Len(keys)].index =
                            IF @.st = "Some" THEN Some(@.v + 1) ELSE Some(0)])
    ELSE Err(serde("keys is empty"))

make_full_key(keys, key) ==
    IF Len(keys) > 0
    THEN LET prev == keys[Len(keys)] IN
         IF prev.index.st = "Some"
         THEN prev.key \o <<"[">> \o UsizeToString(prev.index.v) \o <<"]", "/">> \o key
         ELSE prev.key \o <<"/">> \o key
    ELSE <<"/">> \o key

push_key(keys, key) == Append(keys, [key |-> make_full_key(keys, key), index |-> None])

\* A pop_key that leaves the stack as it is.
pop_key_keeps(keys) == keys

pop_key(keys) == SubSeq(keys, 1, Len(keys) - 1)

\* The outcome of a call on the serializer: st is "ok", "err" (with e) or
\* "panic"; ser is the serializer as the call leaves it.
SerOk(ser) == [st |-> "ok", ser |-> ser]
SerErr(e, ser) == [st |-> "err", e |-> e, ser |-> ser]

\* self.output.set(path, value.into())?, the path parsed or not.
SetOutput(ser, path, value) ==
    IF path.st = "err" THEN SerErr(path.e, ser)
    ELSE IF path.st = "panic" THEN [st |-> "panic", ser |-> ser]
    ELSE [st  |-> SetWalk(ser.output, path.v, value).st,
          ser |-> [ser EXCEPT !.output = SetWalk(ser.output, path.v, value).node]]

serialize_primitive(ser, value) ==
    LET pair == last_key_index_pair(ser.keys) IN
    IF pair.st = "None" THEN SerErr(serde("key is not found for value"), ser)
    ELSE LET key == IF pair.v.index.st = "Some"
                    THEN pair.v.key \o <<"[">> \o UsizeToString(pair.v.index.v)
                         \o <<"]">>
                    ELSE pair.v.key
         IN  SetOutput(ser, parse_to_path(key), value)

\* Display of bool and of f64, as characters.
BoolToString(b) == IF b THEN <<"t", "r", "u", "e">> ELSE <<"f", "a", "l", "s", "e">>
F64ToString(h) ==
    (IF h < 0 THEN <<"-">> ELSE <<>>) \o UsizeToString(Abs(h) \div 2)
    \o (IF h % 2 = 0 THEN <<>> ELSE <<".", "5">>)

\* key.serialize(ToStringSerializer)
RECURSIVE ToStringSerializer(_)
ToStringSerializer(key) ==
    CASE key.t = "bool" -> Ok(BoolToString(key.v))
      [] key.t \in {"i64", "u64"} -> Ok(IsizeToString(key.v))
      [] key.t = "f64" -> Ok(F64ToString(key.v))
      [] key.t = "str" -> Ok(key.v)
      [] key.t = "unit" -> Ok(<<>>)
      [] key.t = "seq" -> Err(serde("seq can't serialize to string"))
      [] key.t = "struct" -> Err(serde("struct can't serialize to string"))
      [] key.t = "map" -> Err(serde("map can't serialize to string key"))
      [] key.t = "newtype_variant" -> ToStringSerializer(key.value)
      [] key.t = "tuple_variant" -> Err(serde("tuple variant can't serialize to string"))
      [] key.t = "struct_variant" -> Err(serde("struct variant can't serialize to string"))

RECURSIVE serialize(_, _)

\* The ? after value.serialize(..): the call returns what r is unless r is Ok.
\* SerializeSeq::serialize_element for each item in turn.
RECURSIVE serialize_elements(_, _)
RECURSIVE serialize_rest_elements(_, _)
serialize_rest_elements(items, r) ==
    IF r.st # "ok" THEN r ELSE serialize_elements(items, r.ser)

serialize_elements(items, ser) ==
    IF items = <<>> THEN SerOk(ser)
    ELSE LET inc == inc_last_key_index(ser.keys) IN
         IF inc.st = "err" THEN SerErr(inc.e, ser)
         ELSE serialize_rest_elements(
                 Tail(items), serialize(Head(items), [ser EXCEPT !.keys = inc.v]))

\* SerializeStruct::serialize_field for each field in turn.
RECURSIVE serialize_fields(_, _)
RECURSIVE serialize_rest_fields(_, _)
serialize_rest_fields(fields, r) ==
    IF r.st # "ok" THEN r
    ELSE serialize_fields(fields, [r.ser EXCEPT !.keys = pop_key(r.ser.keys)])

serialize_fields(fields, ser) ==
    IF fields = <<>> THEN SerOk(ser)
    ELSE serialize_rest_fields(
            Tail(fields),
            serialize(Head(fields).value,
                      [ser EXCEPT !.keys = push_key(ser.keys, Head(fields).key)]))

\* SerializeMap::serialize_key, then serialize_value, for each entry in turn.
RECURSIVE serialize_entries(_, _)
RECURSIVE serialize_rest_entries(_, _)
serialize_rest_entries(entries, r) ==
    IF r.st # "ok" THEN r
    ELSE serialize_entries(entries, [r.ser EXCEPT !.keys = pop_key(r.ser.keys)])

serialize_entries(entries, ser) ==
    IF entries = <<>> THEN SerOk(ser)
    ELSE LET key == ToStringSerializer(Head(entries).key) IN
         IF key.st = "err" THEN SerErr(key.e, ser)
         ELSE serialize_rest_entries(
                 Tail(entries),
                 serialize(Head(entries).value,
                           [ser EXCEPT !.keys = push_key(ser.keys, key.v)]))

\* self.pop_key(); Ok(()) after a payload that was serialized with outcome r:
\* serialize_newtype_variant after the ?, and end() of SerializeTupleVariant
\* and of SerializeStructVariant, which serde calls when no field failed.
serialize_variant_end(r) ==
    IF r.st # "ok" THEN r ELSE SerOk([r.ser EXCEPT !.keys = pop_key(r.ser.keys)])

\* Into<Value> of the primitive a Serializer method hands to
\* serialize_primitive.
IntoValue(from) ==
    CASE from.t = "bool" -> Boolean(from.v)
      [] from.t \in {"i64", "u64"} -> Integer(from.v)
      [] from.t = "f64" -> Float(from.v)
      [] from.t = "str" -> String(Concat(from.v))
      [] from.t = "unit" -> Nil

\* from.serialize(&mut serializer): the Serializer method its type calls.
serialize(from, ser) ==
    CASE from.t = "seq" -> serialize_elements(from.items, ser)
      [] from.t = "struct" -> serialize_fields(from.fields, ser)
      [] from.t = "map" -> serialize_entries(from.entries, ser)
      [] from.t = "newtype_variant" ->
            serialize_variant_end(
               serialize(from.value,
                         [ser EXCEPT !.keys = push_key(ser.keys, from.variant)]))
      [] from.t = "tuple_variant" ->
            serialize_variant_end(
               serialize_elements(
                  from.items, [ser EXCEPT !.keys = push_key(ser.keys, from.variant)]))
      [] from.t = "struct_variant" ->
            serialize_variant_end(
               serialize_fields(
                  from.fields, [ser EXCEPT !.keys = push_key(ser.keys, from.variant)]))
      [] from.t = "u64" /\ from.v > I64Max ->
            SerErr(serde("value is greater than the max"), ser)
      [] OTHER -> serialize_primitive(ser, IntoValue(from))

\* What to_value returns when serialize returned r: Ok(serializer.output),
\* the error, or a panic; keys is the key stack the serializer is left with.
ToValueResult(r) ==
    IF r.st = "ok" THEN [st |-> "ok", v |-> r.ser.output, keys |-> r.ser.keys]
    ELSE IF r.st = "err" THEN [st |-> "err", e |-> r.e, keys |-> r.ser.keys]
    ELSE [st |-> "panic", keys |-> r.ser.keys]

to_value(from) == ToValueResult(serialize(from, DefaultSerializer))

\* Deserialize of a primitive type: deserialize_bool .. deserialize_string
\* hand the visitor self.try_into()?.
deserialize_primitive(self, ty) == try_into(self, ty)

----------------------------------------------------------------------------
(* to_value as a function of the data: one to_value is applied to any data  *)
(* of at most MaxDataNodes nodes.                                            *)

MaxDataNodes == 4

DataLeaves ==
    {DBool(TRUE), DI64(0 - 5), DU64(7), DU64(I64Max + 1), DStr(<<"x">>), DUnit}

FieldKeys == <<(<<"a">>), (<<"b">>)>>
MapKeys == <<DStr(<<"a">>), DI64(5)>>

RECURSIVE DataSize(_)
DataSize(from) ==
    CASE from.t = "seq" ->
            1 + SumSeq([i \in 1 .. Len(from.items) |-> DataSize(from.items[i])])
      [] from.t = "struct" ->
            1 + SumSeq([i \in 1 .. Len(from.fields) |-> DataSize(from.fields[i].value)])
      [] from.t = "map" ->
            1 + SumSeq([i \in 1 .. Len(from.entries) |-> DataSize(from.entries[i].value)])
      [] from.t = "newtype_variant" -> 1 + DataSize(from.value)
      [] from.t = "tuple_variant" ->
            1 + SumSeq([i \in 1 .. Len(from.items) |-> DataSize(from.items[i])])
      [] from.t = "struct_variant" ->
            1 + SumSeq([i \in 1 .. Len(from.fields) |-> DataSize(from.fields[i].value)])
      [] OTHER -> 1

\* The data of S that have k nodes.
OfSize(S, k) == {x \in S : DataSize(x) = k}

\* The sequences of data of S of at most n nodes in all.
RECURSIVE ItemsOf(_, _)
ItemsOf(S, n) ==
    {<<>>} \cup UNION {{<<x>> \o l : x \in OfSize(S, k), l \in ItemsOf(S, n - k)}
                         : k \in 1 .. n}

\* The values of S under some of the keys ks, in their order, of at most n
\* nodes in all.
RECURSIVE KeyedOf(_, _, _)
KeyedOf(S, n, ks) ==
    IF ks = <<>> THEN {<<>>}
    ELSE KeyedOf(S, n, Tail(ks))
         \cup UNION {{<<[key |-> Head(ks), value |-> x]>> \o l
                        : x \in OfSize(S, k), l \in KeyedOf(S, n - k, Tail(ks))}
                       : k \in 1 .. n}

\* The data of at most n nodes.
RECURSIVE DataOf(_)
DataOf(n) ==
    IF n <= 0 THEN {}
    ELSE LET S == DataOf(n - 1) IN
         DataLeaves
         \cup {DSeq(items) : items \in ItemsOf(S, n - 1)}
         \cup {DStruct(fields) : fields \in KeyedOf(S, n - 1, FieldKeys)}
         \cup {DMap(entries) : entries \in KeyedOf(S, n - 1, MapKeys)}

\* A struct whose field a holds a sequence of one or two sequences of one or
\* two primitives each.
NestedSeqs ==
    LET prims == {DI64(0 - 5), DStr(<<"x">>)}
        inner == {DSeq(<<x>>) : x \in prims} \cup {DSeq(<<x, y>>) : x \in prims, y \in prims}
        outer == {<<s>> : s \in inner} \cup {<<s, u>> : s \in inner, u \in inner}
    IN  {DStruct(<<[key |-> <<"a">>, value |-> DSeq(items)]>>) : items \in outer}

\* The variants of the enums of the model over the payloads of S.
VariantsOf(S) ==
    {DNewtypeVariant(<<"v">>, x) : x \in S}
    \cup {DTupleVariant(<<"v">>, items) : items \in ItemsOf(S, 2)}
    \cup {DStructVariant(<<"v">>, fields) : fields \in KeyedOf(S, 2, FieldKeys)}

\* Variants, bare, in a struct field, in a sequence in a struct field and in
\* a map entry.
VariantData ==
    LET V == VariantsOf(DataOf(2)) \cup VariantsOf(VariantsOf({DI64(0 - 5)})) IN
    V \cup {DStruct(<<[key |-> <<"a">>, value |-> x]>>) : x \in V}
      \cup {DStruct(<<[key |-> <<"a">>, value |-> DSeq(<<x>>)]>>) : x \in V}
      \cup {DMap(<<[key |-> DStr(<<"a">>), value |-> x]>>) : x \in V}

Data == DataOf(MaxDataNodes) \cup NestedSeqs \cup VariantData

\* The data serialized under a key stack: what a field, an element or an
\* entry may hold.
HeldData == DataOf(MaxDataNodes - 1) \cup NestedSeqs \cup VariantData

\* The key stacks a value is serialized under: none, a struct field, an
\* element of a sequence in a struct field, a field of a struct that is an
\* element of a sequence.
KeyStacks ==
    {<<>>,
     <<[key |-> <<"/", "a">>, index |-> None]>>,
     <<[key |-> <<"/", "a">>, index |-> Some(0)]>>,
     <<[key |-> <<"/", "a">>, index |-> Some(1)],
       [key |-> <<"/", "a", "[", "1", "]", "/", "b">>, index |-> None]>>}

\* to_value(from)
ToValue(from) ==
    /\ last.op = "init"
    /\ last' = [op |-> "to_value", from |-> from, st |-> to_value(from).st,
                res |-> to_value(from)]
    /\ root' = (IF last'.st = "ok" THEN last'.res.v ELSE root)
    /\ UNCHANGED overflowChecks

\* from.serialize(&mut serializer) on a serializer whose key stack is keys:
\* the call a field, an element or an entry that holds from makes.
Serialize(from, keys) ==
    /\ last.op = "init"
    /\ last' = [op |-> "serialize", from |-> from, keys |-> keys,
                st |-> serialize(from, [keys |-> keys, output |-> Nil]).st,
                res |-> serialize(from, [keys |-> keys, output |-> Nil])]
    /\ UNCHANGED <<overflowChecks, root>>

NextSer ==
    \/ \E from \in Data : ToValue(from)
    \/ \E from \in HeldData, keys \in KeyStacks : Serialize(from, keys)

SpecSer == Init /\ [][NextSer]_vars

----------------------------------------------------------------------------
IsToValue == last.op = "to_value"

\* The type a primitive of the data has, and the value of that type it is.
TypeOfData(from) ==
    CASE from.t = "bool" -> "bool"
      [] from.t = "i64" -> "i64"
      [] from.t = "u64" -> "u64"
      [] from.t = "str" -> "String"

TypedOfData(from) ==
    [ty |-> TypeOfData(from),
     v |-> IF from.t = "str" THEN Concat(from.v) ELSE from.v]

\* C16: for a primitive v (a bool, a signed integer, an unsigned integer up
\* to the 64-bit maximum, a string) to_value(v) succeeds, and decoding the
\* Value it returns into v's type gives v.
C16_PrimitiveRoundTrip ==
    (IsToValue /\ last.from.t \in {"bool", "i64", "u64", "str"})
    => /\ last.st = "ok"
       /\ deserialize_primitive(last.res.v, TypeOfData(last.from))
             = [st |-> "ok", v |-> TypedOfData(last.from)]

\* The path strings of simple_to_value_test.
FakePath == <<"/", "f", "a", "k", "e", "_", "p", "a", "t", "h">>
TestBoolPath == <<"/", "t", "e", "s", "t", "/", "b", "o", "o", "l">>

\* C17: to_value of a bare bool, integer or str returns Ok(v); get of a path
\* that is not in v returns Ok(None); set("/test/bool", false) on v then
\* succeeds and get("/test/bool") returns Some(false).
C17_ToValueOfBarePrimitive ==
    (IsToValue /\ last.from.t \in {"bool", "i64", "str"})
    => /\ last.st = "ok"
       /\ get(last.res.v, parse_to_path(FakePath).v, TypeOfData(last.from))
             = [st |-> "OkNone"]
       /\ LET path == parse_to_path(TestBoolPath).v
              r == SetWalk(last.res.v, path, Boolean(FALSE))
          IN  /\ r.st = "ok"
              /\ get(r.node, path, "bool")
                    = [st |-> "OkSome", v |-> [ty |-> "bool", v |-> FALSE]]

\* The Value a primitive of the data is written as.
ValueOfData(from) ==
    CASE from.t = "bool" -> [t |-> "Boolean", v |-> from.v]
      [] from.t \in {"i64", "u64"} -> [t |-> "Integer", v |-> from.v]
      [] from.t = "f64" -> [t |-> "Float", v |-> from.v]
      [] from.t = "str" -> [t |-> "String", v |-> Concat(from.v)]
      [] from.t = "unit" -> [t |-> "Nil"]

IsSeqOfPrimitives(from) ==
    from.t = "seq" /\ \A i \in 1 .. Len(from.items) : IsPrimitive(from.items[i])

\* Every sequence of primitives that from holds in a struct field or in a map
\* entry of a string key, at the path P (at), is in tree the Array of its
\* elements at P.
RECURSIVE SeqsAreArrays(_, _, _)
SeqsAreArrays(from, at, tree) ==
    CASE from.t = "struct" ->
            \A i \in 1 .. Len(from.fields) :
               LET P == at \o <<[k |-> "Identifier", id |-> Concat(from.fields[i].key)]>>
                   held == from.fields[i].value
               IN  IF IsSeqOfPrimitives(held)
                   THEN Resolve(tree, P)
                          = Some([t |-> "Array",
                                  a |-> [j \in 1 .. Len(held.items) |->
                                           ValueOfData(held.items[j])]])
                   ELSE SeqsAreArrays(held, P, tree)
      [] from.t = "map" ->
            \A i \in 1 .. Len(from.entries) :
               from.entries[i].key.t = "str" =>
               LET P == at \o <<[k |-> "Identifier", id |-> Concat(from.entries[i].key.v)]>>
                   held == from.entries[i].value
               IN  IF IsSeqOfPrimitives(held)
                   THEN Resolve(tree, P)
                          = Some([t |-> "Array",
                                  a |-> [j \in 1 .. Len(held.items) |->
                                           ValueOfData(held.items[j])]])
                   ELSE SeqsAreArrays(held, P, tree)
      [] OTHER -> TRUE

\* A sequence of primitives in a struct field or a map entry, somewhere in from.
RECURSIVE HoldsSeq(_)
HoldsSeq(from) ==
    CASE from.t = "struct" ->
            \E i \in 1 .. Len(from.fields) :
               IsSeqOfPrimitives(from.fields[i].value) \/ HoldsSeq(from.fields[i].value)
      [] from.t = "map" ->
            \E i \in 1 .. Len(from.entries) :
               /\ from.entries[i].key.t = "str"
               /\ IsSeqOfPrimitives(from.entries[i].value)
                     \/ HoldsSeq(from.entries[i].value)
      [] OTHER -> FALSE

\* C19: a sequence of n primitives held in a struct field or a map entry at
\* the path P is encoded by writing element i at P[i], i = 0 .. n-1 in
\* order: the result holds at P an Array of length n, the elements in order.
C19_SequenceIsArray ==
    (IsToValue /\ HoldsSeq(last.from))
    => (last.st = "ok" /\ SeqsAreArrays(last.from, <<>>, root))

----------------------------------------------------------------------------
(* value/de.rs, EnumAccess: the choice of the variant when a Value is       *)
(* decoded as an enum whose variant names are variants.                     *)

no_constructor_error(supposed_variant) ==
    serde("enum does not have variant constructor")
structural_error ==
    serde("value of enum should be represented by either string or table with exactly one key")

variant_deserializer(variants, name) ==
    IF \E i \in 1 .. Len(variants) : variants[i] = name
    THEN Ok(name) ELSE Err(no_constructor_error(name))

\* A table_deserializer that takes a key of any table that has one.
table_deserializer_any_key(variants, table) ==
    IF Cardinality(DOMAIN table) >= 1
    THEN variant_deserializer(variants, CHOOSE k \in DOMAIN table : TRUE)
    ELSE Err(structural_error)

table_deserializer(variants, table) ==
    IF Cardinality(DOMAIN table) = 1
    THEN variant_deserializer(variants, CHOOSE k \in DOMAIN table : TRUE)
    ELSE Err(structural_error)

\* EnumAccess::variant_seed: the name handed to the seed, or the error.
variant_seed(value, variants) ==
    CASE value.t = "String" -> variant_deserializer(variants, value.v)
      [] value.t = "Map" -> table_deserializer(variants, value.m)
      [] OTHER -> Err(structural_error)

\* The enums of the model, by their variant lists.
VariantLists == {<<>>, <<"a">>, <<"b">>, <<"a", "b">>, <<"x", "a">>}

\* The Values decoded: the trees merge is checked on, and strings that name
\* variants.
DeValues == MergeTrees \cup {String("a"), String("b")}

InitDe ==
    /\ overflowChecks \in BOOLEAN
    /\ root \in DeValues
    /\ last = [op |-> "init", st |-> "ok"]

\* root.deserialize_enum(name, variants, visitor), up to the choice of the variant
DeserializeEnum(variants) ==
    /\ last.op = "init"
    /\ last' = [op |-> "variant_seed", st |-> "ok", variants |-> variants,
                res |-> variant_seed(root, variants)]
    /\ UNCHANGED <<overflowChecks, root>>

\* VariantAccess for EnumAccess.  The payload of a variant is the value of the
\* table's one entry; on a value that is not a Map the match falls to
\* unreachable!(), which panics.
unit_variant(value) == Ok(<<>>)

VariantPayload(value) ==
    IF value.t = "Map" THEN Ok(value.m[CHOOSE k \in DOMAIN value.m : TRUE])
    ELSE [st |-> "panic"]

newtype_variant_seed(value) == VariantPayload(value)
tuple_variant(value) == VariantPayload(value)
struct_variant(value) == VariantPayload(value)

\* The kinds of variant, and the enums of the model: one or two variants,
\* each [name, kind].
VariantKinds == {"unit", "newtype", "tuple", "struct"}

Enums ==
    {<<[name |-> "a", kind |-> k]>> : k \in VariantKinds}
    \cup {<<[name |-> "a", kind |-> k], [name |-> "b", kind |-> j]>>
             : k \in VariantKinds, j \in VariantKinds}

NamesOf(enum) == [i \in 1 .. Len(enum) |-> enum[i].name]

KindOf(enum, name) == enum[CHOOSE i \in 1 .. Len(enum) : enum[i].name = name].kind

\* What the visitor of a derived Deserialize does with the (variant, access)
\* pair of visit_enum: it calls the access method of the variant's kind.
VisitVariant(value, name, kind) ==
    CASE kind = "unit" ->
            [st |-> unit_variant(value).st, variant |-> name]
      [] kind = "newtype" ->
            [st |-> newtype_variant_seed(value).st, variant |-> name]
      [] kind = "tuple" ->
            [st |-> tuple_variant(value).st, variant |-> name]
      [] kind = "struct" ->
            [st |-> struct_variant(value).st, variant |-> name]

\* visit_enum after variant_seed returned seed: its error, or the visit of
\* the variant it named.
VisitEnum(value, enum, seed) ==
    IF seed.st = "err" THEN seed
    ELSE VisitVariant(value, seed.v, KindOf(enum, seed.v))

\* Deserializer::deserialize_enum for Value, up to the decoding of the payload.
deserialize_enum(value, enum) ==
    VisitEnum(value, enum, variant_seed(value, NamesOf(enum)))

\* E::deserialize(root) for the enum E
DecodeEnum(enum) ==
    /\ last.op = "init"
    /\ last' = [op |-> "deserialize_enum", st |-> deserialize_enum(root, enum).st,
                enum |-> enum, res |-> deserialize_enum(root, enum)]
    /\ UNCHANGED <<overflowChecks, root>>

NextDe ==
    \/ \E variants \in VariantLists : DeserializeEnum(variants)
    \/ \E enum \in Enums : DecodeEnum(enum)

SpecDe == InitDe /\ [][NextDe]_vars

----------------------------------------------------------------------------
IsVariantSeed == last.op = "variant_seed"

KnownVariants == {last.variants[i] : i \in 1 .. Len(last.variants)}

\* C20: decoding an enum from a Map selects a variant exactly when the map
\* has one key and that key is in the enum's variant list; a map of no key
\* or of two or more keys, a map whose one key is not a variant, and a
\* string that is not a variant each give an error.
C20_EnumFromMap ==
    IsVariantSeed =>
       /\ root.t = "Map" =>
             /\ last.res.st = "ok" <=>
                   (\E k \in KnownVariants : DOMAIN root.m = {k})
             /\ last.res.st = "ok" => DOMAIN root.m = {last.res.v}
             /\ Cardinality(DOMAIN root.m) # 1 => last.res.st = "err"
       /\ (root.t = "String" /\ root.v \notin KnownVariants) => last.res.st = "err"

C20_Witness ==
    /\ IsVariantSeed
    /\ root = [t |-> "Map", m |-> [k \in {"a"} |-> [t |-> "Boolean", v |-> TRUE]]]
    /\ last.variants = <<"x", "a">>
    /\ last.res = [st |-> "ok", v |-> "a"]

----------------------------------------------------------------------------
(* The conversions as functions of the Value: the Value is any of           *)
(* ConvValues and one call of try_into is made on it.                       *)

\* The integers at and around the limits of every integer type.
ConvIntegers ==
    {0 - 1, 0, 1, 5}
    \cup UNION {{IntMin(ty) - 1, IntMin(ty), IntMax(ty), IntMax(ty) + 1}
                  : ty \in IntTypes}

ConvStrings ==
    {"1", "true", "on", "yes", "On", "YES", "0", "false", "off", "no",
     "False", "7", "300", "x"}

ConvValues ==
    {Nil, Boolean(TRUE), Boolean(FALSE), Float(0), Float(3), Float(0 - 3),
     Map(EmptyMap), Array(<<>>), Array(<<Integer(1)>>)}
    \cup {Integer(n) : n \in ConvIntegers}
    \cup {String(s) : s \in ConvStrings}

InitConv ==
    /\ overflowChecks \in BOOLEAN
    /\ root \in ConvValues
    /\ last = [op |-> "init", st |-> "ok"]

\* <ty as TryFrom<Value>>::try_from(root)
TryInto(ty) ==
    /\ last.op = "init"
    /\ last' = [op |-> "try_into", st |-> "ok", ty |-> ty,
                res |-> try_into(root, ty)]
    /\ UNCHANGED <<overflowChecks, root>>

\* What a call of the visitor is: the callback and its argument.
Visit(callback, v) == [st |-> "ok", visit |-> callback, v |-> v]

\* A deserialize_any that hands every Integer to visit_i64, wrapped to i64.
deserialize_any_wrapping(self) ==
    CASE self.t = "Nil" -> Visit("unit", <<>>)
      [] self.t = "Integer" ->
            Visit("i64", ((self.v + I64Max + 1) % (2 * (I64Max + 1))) - I64Max - 1)
      [] self.t = "Boolean" -> Visit("bool", self.v)
      [] self.t = "Float" -> Visit("f64", self.v)
      [] self.t = "String" -> Visit("string", self.v)
      [] self.t = "Array" -> Visit("seq", self.a)
      [] self.t = "Map" -> Visit("map", self.m)

\* Deserializer::deserialize_any for Value: the visitor callback it calls, or
\* the error it returns.
deserialize_any(self) ==
    CASE self.t = "Nil" -> Visit("unit", <<>>)
      [] self.t = "Integer" ->
            IF self.v >= 0 - I64Max - 1 /\ self.v <= I64Max
            THEN Visit("i64", self.v) ELSE Err(too_large(self.v))
      [] self.t = "Boolean" -> Visit("bool", self.v)
      [] self.t = "Float" -> Visit("f64", self.v)
      [] self.t = "String" -> Visit("string", self.v)
      [] self.t = "Array" -> Visit("seq", self.a)
      [] self.t = "Map" -> Visit("map", self.m)

\* root.deserialize_any(visitor)
DeserializeAny ==
    /\ last.op = "init"
    /\ last' = [op |-> "deserialize_any", st |-> "ok", res |-> deserialize_any(root)]
    /\ UNCHANGED <<overflowChecks, root>>

NextConv ==
    \/ \E ty \in Types : TryInto(ty)
    \/ DeserializeAny

SpecConv == InitConv /\ [][NextConv]_vars

----------------------------------------------------------------------------
IsTryInto == last.op = "try_into"

IsTypeError(res) == res.st = "err" /\ res.e.kind = "Type"

\* C21: conversion of a Value to bool: a Boolean passes through; an Integer
\* is true iff it is not zero; a String, compared without regard to case,
\* is true for 1/true/on/yes, false for 0/false/off/no and a Type error
\* otherwise; Nil, Map and Array give a Type error.
C21_ToBool ==
    (IsTryInto /\ last.ty = "bool") =>
       /\ root.t = "Boolean" => last.res = Ok(Typed("bool", root.v))
       /\ root.t = "Integer" => last.res = Ok(Typed("bool", root.v # 0))
       /\ root.t = "String" =>
             IF root.v \in {"1", "true", "on", "yes", "On", "YES"}
             THEN last.res = Ok(Typed("bool", TRUE))
             ELSE IF root.v \in {"0", "false", "off", "no", "False"}
             THEN last.res = Ok(Typed("bool", FALSE))
             ELSE IsTypeError(last.res)
       /\ root.t \in {"Nil", "Map", "Array"} => IsTypeError(last.res)

C21_Witness ==
    /\ IsTryInto
    /\ last.ty = "bool"
    /\ root = String("YES")
    /\ last.res = Ok(Typed("bool", TRUE))

\* C22: conversion of Integer(n) to an integer type returns n exactly when n
\* is between the type's minimum and maximum, both included, and otherwise
\* a Range error that carries n; a Boolean converts to 0 or 1, the strings
\* true/on/yes and false/off/no in any case to 1 and 0, and Nil, Map and
\* Array give a Type error.
C22_ToInteger ==
    (IsTryInto /\ last.ty \in IntTypes) =>
       /\ root.t = "Integer" =>
             IF IntMin(last.ty) <= root.v /\ root.v <= IntMax(last.ty)
             THEN last.res = Ok(Typed(last.ty, root.v))
             ELSE last.res = Err([kind |-> "Range", v |-> root.v])
       /\ root.t = "Boolean" =>
             last.res = Ok(Typed(last.ty, IF root.v THEN 1 ELSE 0))
       /\ (root.t = "String" /\ root.v \in {"true", "on", "yes", "On", "YES"}) =>
             last.res = Ok(Typed(last.ty, 1))
       /\ (root.t = "String" /\ root.v \in {"false", "off", "no", "False"}) =>
             last.res = Ok(Typed(last.ty, 0))
       /\ root.t \in {"Nil", "Map", "Array"} => IsTypeError(last.res)

C22_Witness ==
    /\ IsTryInto
    /\ last.ty = "i8"
    /\ root = Integer(128)
    /\ last.res = Err([kind |-> "Range", v |-> 128])

----------------------------------------------------------------------------
\* Two Type errors are the same error: the same expected name and the same
\* description of the unexpected value.
SameTypeError(e1, e2) ==
    /\ e1.expected = e2.expected
    /\ e1.unexpected.u = e2.unexpected.u
    /\ e1.unexpected.u \in {"Bool", "Integer", "Float", "Str"}
          => e1.unexpected.v = e2.unexpected.v

\* C23: merge is deterministic: for the same target and the same source the
\* outcome (Ok, or which error) and the target the call leaves are the same
\* whatever the order in which the entries of the source Maps are iterated.
C23_MergeDeterministic ==
    IsMerge =>
       \A order \in KeyOrders :
          /\ merge(last.pre, last.source, order).st = last.st
          /\ merge(last.pre, last.source, order).node = root
          /\ last.st = "err" =>
                SameTypeError(merge(last.pre, last.source, order).e, last.e)

----------------------------------------------------------------------------
(* set called with a path string: the tree is any of MergeTrees and one     *)
(* call is made, with a string that is a path, with one that is not, or     *)
(* with one whose index is not an isize.                                    *)

\* "/a[40000]": an index the grammar takes and isize does not hold.
OverflowPaths == {<<"/", "a", "[">> \o UsizeToString(IsizeMax + 1) \o <<"]">>}

\* Segments of the keys the trees hold, bare or with one index.
ShortSegs ==
    {[ident |-> id, ixs |-> ixs] : id \in {<<"a">>, <<"b">>},
                                   ixs \in {<<>>, <<0>>, <<0 - 1>>}}

SetTexts ==
    NotPaths \cup OverflowPaths \cup {RenderPath(segs) : segs \in SegListsOf(1)}
    \cup {RenderPath(<<g, h>>) : g \in ShortSegs, h \in ShortSegs}

\* Trees that hold an Array of two or three elements under the key a.
ArrayTrees ==
    LET elems == {Integer(5), String("x")}
        arrays == {<<x, y>> : x \in elems, y \in elems}
                  \cup {<<x, y, Nil>> : x \in elems, y \in elems}
    IN  {Map([k \in {"a"} |-> Array(a)]) : a \in arrays}
        \cup {Map([k \in {"a", "b"} |-> IF k = "a" THEN Array(a) ELSE Boolean(TRUE)])
                 : a \in arrays}

SetTrees == MergeTrees \cup ArrayTrees

InitSetText ==
    /\ overflowChecks \in BOOLEAN
    /\ root \in SetTrees
    /\ last = [op |-> "init", st |-> "ok"]

\* root.set(s, input_value)
SetText(s, input_value) ==
    /\ last.op = "init"
    /\ last' = [op |-> "set_text", s |-> s, input |-> input_value, pre |-> root,
                st |-> set(root, s, input_value).st,
                res |-> set(root, s, input_value)]
    /\ root' = last'.res.node
    /\ UNCHANGED overflowChecks

NextSetText == \E s \in SetTexts, input_value \in InputValues : SetText(s, input_value)

SpecSetText == InitSetText /\ [][NextSetText]_vars

----------------------------------------------------------------------------
IsSetText == last.op = "set_text"

\* C24: set called with a path string that does not parse returns a
\* PathParse error and leaves the tree as it was: no node is replaced or
\* created before the path is validated.
C24_SetUnparsablePath ==
    (IsSetText /\ PestParse(last.s).st = "err") =>
       /\ last.st = "err"
       /\ last.res.e = [kind |-> "PathParse", s |-> last.s]
       /\ root = last.pre

C24_Witness ==
    /\ IsSetText
    /\ last.s = <<"/", "a", "[", "b", "]">>
    /\ last.pre = Map([k \in {"a"} |-> Array(<<Integer(5)>>)])
    /\ last.st = "err"
    /\ root = last.pre

----------------------------------------------------------------------------
\* The nodes a list of written segments stands for, every index kept.
RECURSIVE IndexNodes(_)
IndexNodes(ixs) ==
    IF ixs = <<>> THEN <<>>
    ELSE <<[k |-> "Index", ix |-> Head(ixs)]>> \o IndexNodes(Tail(ixs))

RECURSIVE AllNodesOfSegs(_)
AllNodesOfSegs(segs) ==
    IF segs = <<>> THEN <<>>
    ELSE <<[k |-> "Identifier", id |-> Concat(Head(segs).ident)]>>
         \o IndexNodes(Head(segs).ixs) \o AllNodesOfSegs(Tail(segs))

\* C25: a segment written as an identifier and k >= 1 bracketed indices parses
\* to the Identifier and then k Index nodes in the order of the input
\* ("/a[0][1]" gives Identifier(a), Index(0), Index(1)): no index is dropped.
C25_EveryIndexKept ==
    (IsParse /\ last.written.st = "Some")
    => last.res = [st |-> "ok", v |-> AllNodesOfSegs(last.written.v)]

----------------------------------------------------------------------------
IsDeserializeAny == last.op = "deserialize_any"

\* C26: untyped decoding dispatches on the variant of the Value: Nil to unit,
\* Boolean to bool, String to string, Array to the sequence visitor, Map to
\* the map visitor, and Integer(n) to a signed 64-bit integer when n is in
\* the range of i64 and to a Range error that carries n otherwise.
C26_DeserializeAny ==
    IsDeserializeAny =>
       /\ root.t = "Nil" => (last.res.st = "ok" /\ last.res.visit = "unit")
       /\ root.t = "Boolean" =>
             (last.res.st = "ok" /\ last.res.visit = "bool" /\ last.res.v = root.v)
       /\ root.t = "String" =>
             (last.res.st = "ok" /\ last.res.visit = "string" /\ last.res.v = root.v)
       /\ root.t = "Array" =>
             (last.res.st = "ok" /\ last.res.visit = "seq" /\ last.res.v = root.a)
       /\ root.t = "Map" =>
             (last.res.st = "ok" /\ last.res.visit = "map" /\ last.res.v = root.m)
       /\ root.t = "Integer" =>
             IF 0 - (2 ^ (I64Bits - 1)) <= root.v /\ root.v < 2 ^ (I64Bits - 1)
             THEN last.res.st = "ok" /\ last.res.visit = "i64" /\ last.res.v = root.v
             ELSE last.res = [st |-> "err", e |-> [kind |-> "Range", v |-> root.v]]

C26_Witness ==
    /\ IsDeserializeAny
    /\ root = Integer(2 ^ (I64Bits - 1))
    /\ last.res = [st |-> "err", e |-> [kind |-> "Range", v |-> 2 ^ (I64Bits - 1)]]

----------------------------------------------------------------------------
(* The frame of set.  Paths are compared by position: an Index below zero   *)
(* is taken for the position it addresses in the array the walk meets.      *)

\* Every node of `value` that the walk of path meets has the variant the
\* segment asks for: a Map for an Identifier, an Array for an Index.
RECURSIVE Matches(_, _)
Matches(value, path) ==
    IF path = <<>> THEN TRUE
    ELSE LET n == Head(path) IN
         IF n.k = "Identifier" THEN
            /\ value.t = "Map"
            /\ n.id \in DOMAIN value.m => Matches(value.m[n.id], Tail(path))
         ELSE
            /\ value.t = "Array"
            /\ PosOf(n.ix, Len(value.a)) \in 1 .. Len(value.a)
                  => Matches(value.a[PosOf(n.ix, Len(value.a))], Tail(path))

\* The path with every Index written as the position it addresses.
RECURSIVE Positions(_, _)
Positions(value, path) ==
    IF path = <<>> THEN <<>>
    ELSE LET n == Head(path) IN
         IF n.k = "Identifier" THEN
            <<n>> \o Positions(IF value.t = "Map" /\ n.id \in DOMAIN value.m
                               THEN value.m[n.id] ELSE Nil, Tail(path))
         ELSE
            LET array == IF value.t = "Array" THEN value.a ELSE <<Nil>>
                pos == PosOf(n.ix, Len(array))
            IN  <<[k |-> "Index", ix |-> pos - 1]>>
                \o Positions(IF pos \in 1 .. Len(array) THEN array[pos] ELSE Nil,
                             Tail(path))

\* The paths, by position, of all the nodes of a tree.
RECURSIVE NodePaths(_)
NodePaths(value) ==
    {<<>>}
    \cup (IF value.t = "Map"
          THEN UNION {{<<[k |-> "Identifier", id |-> key]>> \o q
                         : q \in NodePaths(value.m[key])} : key \in DOMAIN value.m}
          ELSE {})
    \cup (IF value.t = "Array"
          THEN UNION {{<<[k |-> "Index", ix |-> i - 1]>> \o q
                         : q \in NodePaths(value.a[i])} : i \in 1 .. Len(value.a)}
          ELSE {})

IsPrefix(p, q) == Len(p) <= Len(q) /\ SubSeq(q, 1, Len(p)) = p

\* No node of `before` off the path p differs in `after`.
FrameKept(before, after, p) ==
    \A q \in NodePaths(before) :
       (~IsPrefix(q, p) /\ ~IsPrefix(p, q)) => Resolve(after, q) = Resolve(before, q)

\* What C27 says of a call whose path string parsed to `path`.
FrameOfSet(path) ==
    (path.st = "ok" /\ Matches(last.pre, path.v))
    => FrameKept(last.pre, root, Positions(last.pre, path.v))

\* C27: set(p, v) on a tree in which every node on p's walk already has the
\* matching variant leaves unchanged the value at every path that is neither
\* a prefix nor an extension of p: no sibling key is removed and no existing
\* array element is moved, overwritten or removed.
C27_SetFrame == IsSetText => FrameOfSet(parse_to_path(last.s))

C27_Witness ==
    /\ IsSetText
    /\ last.s = <<"/", "a", "[", "0", "]">>
    /\ last.pre = Map([k \in {"a", "b"} |->
                         IF k = "a" THEN Array(<<Integer(5), String("x"), Nil>>)
                         ELSE Boolean(TRUE)])
    /\ last.input = Float(3)
    /\ root = Map([k \in {"a", "b"} |->
                     IF k = "a" THEN Array(<<Float(3), String("x"), Nil>>)
                     ELSE Boolean(TRUE)])

----------------------------------------------------------------------------
\* A primitive the encoder takes: every one but a u64 above i64's maximum.
IsEncodable(from) == IsPrimitive(from) /\ ~(from.t = "u64" /\ from.v > I64Max)

\* A sequence of one or more sequences, each of one or more encodable
\* primitives.
IsSeqOfSeqs(from) ==
    /\ from.t = "seq" /\ from.items # <<>>
    /\ \A i \in 1 .. Len(from.items) :
          /\ from.items[i].t = "seq" /\ from.items[i].items # <<>>
          /\ \A j \in 1 .. Len(from.items[i].items) : IsEncodable(from.items[i].items[j])

\* The Array of Arrays a sequence of sequences of primitives stands for.
ArrayOfArrays(from) ==
    [t |-> "Array",
     a |-> [i \in 1 .. Len(from.items) |->
              [t |-> "Array",
               a |-> [j \in 1 .. Len(from.items[i].items) |->
                        ValueOfData(from.items[i].items[j])]]]]

\* C28: when the elements of a sequence are sequences, the index of the outer
\* sequence counts the outer elements only: encoding a struct whose field
\* holds a sequence of sequences of primitives does not abort, and the field
\* holds an Array with one element per inner sequence, each the Array of
\* that sequence's elements.
C28_NestedSequences ==
    (IsToValue /\ last.from.t = "struct" /\ Len(last.from.fields) = 1
       /\ IsSeqOfSeqs(last.from.fields[1].value))
    => /\ last.st = "ok"
       /\ Resolve(root, <<[k |-> "Identifier", id |-> Concat(last.from.fields[1].key)]>>)
             = Some(ArrayOfArrays(last.from.fields[1].value))

IsSerialize == last.op = "serialize"

\* C29: a struct field, a map entry or an enum variant that the encoder
\* enters and completes without error leaves the key stack as it was on
\* entry, and when to_value returns Ok the key stack is empty.
C29_KeyStackBalanced ==
    /\ (IsSerialize /\ last.st = "ok"
          /\ last.from.t \in {"struct", "map", "newtype_variant", "tuple_variant",
                              "struct_variant"})
       => last.res.ser.keys = last.keys
    /\ (IsToValue /\ last.st = "ok") => last.res.keys = <<>>

C29_Witness ==
    /\ IsSerialize
    /\ last.st = "ok"
    /\ last.keys = <<[key |-> <<"/", "a">>, index |-> Some(0)]>>
    /\ last.from = DStruct(<<[key |-> <<"a">>,
                              value |-> DSeq(<<DTupleVariant(<<"v">>, <<DI64(0 - 5)>>)>>)]>>)
    /\ last.res.ser.keys = last.keys

----------------------------------------------------------------------------
IsDecodeEnum == last.op = "deserialize_enum"

\* The enum of the call has a variant of this name that carries a payload.
NamesPayloadVariant(name) ==
    \E i \in 1 .. Len(last.enum) :
       last.enum[i].name = name /\ last.enum[i].kind \in {"newtype", "tuple", "struct"}

\* C30: decoding an enum from a bare String that names a variant which carries
\* a payload (a newtype, tuple or struct variant) ends with an error result:
\* it does not abort.
C30_StringNamesPayloadVariant ==
    (IsDecodeEnum /\ root.t = "String" /\ NamesPayloadVariant(root.v))
    => last.res.st = "err"

====
